---- MODULE Spec2Model ----
(***************************************************************************)
(* KSFX: the keyboard sound-effect loop of src/src/main.rs.                *)
(*                                                                         *)
(* One Tick is one iteration of the `loop` of main (lines 139-224).  The   *)
(* configuration (settings, sound_packs) is fixed at Init, as it is after  *)
(* lines 57-128 of main.  Numbers are scaled to integers:                  *)
(*   pitch values in units of 0.005, volume in units of 0.1,               *)
(*   time in units of 1/UnitsPerMs millisecond.                            *)
(* Option<T> is a sequence of length at most one: None = <<>>,             *)
(* Some(x) = <<x>>.  A String is a sequence of characters.                 *)
(***************************************************************************)
EXTENDS Integers, Sequences, FiniteSets, TLC

VARIABLES
  settings,            \* Settings (lines 44-55, 76-114), immutable
  sound_packs,         \* number of decoded clips of every pack (lines 118-128)
  active,              \* line 61
  previous_key_amt,    \* line 132
  last_press_elapsed,  \* last_press.elapsed() (lines 133, 206, 214)
  pitch,               \* line 134
  toggled,             \* line 135
  switched_pack,       \* line 136
  current_sound_pack,  \* line 137
  sink,                \* the rodio Sink (line 63): queue, speed, volume
  status,              \* "running", "terminated", or the panic that ended main
  keys,                \* the keys sampled by the latest tick (line 140)
  console,             \* the lines printed by the latest tick
  played,              \* whether the latest tick appended a clip to the sink
  elapsed,             \* last_press.elapsed() as the latest tick measured it
  toggles,             \* flips of active since the latest tick with no key held
  switches,            \* changes of current_sound_pack since that tick
  step                 \* the latest step: "init", "tick" or "clip_end"

vars == <<settings, sound_packs, active, previous_key_amt, last_press_elapsed,
          pitch, toggled, switched_pack, current_sound_pack, sink, status,
          keys, console, played, elapsed, toggles, switches, step>>

(***************************************************************************)
(* Bounds and scales                                                       *)
(***************************************************************************)
Keys == {"A", "B"}          \* the key names the device can report
MaxElapsed == 2             \* longest modelled time since the last press
MaxDelta == 1               \* longest modelled time between two iterations
MaxBindLen == 2             \* longest key list of a binding
MaxPacks == 2               \* most sound packs of a configuration
MaxClips == 2               \* most clips of a pack
MaxPathLen == 3             \* longest pack path, in characters
UnitsPerMs == 2             \* time units per millisecond

\* The hard-coded defaults of lines 191-202 and 134, in model units.
DefaultVolume == 10
DefaultPitchStart == 100
DefaultPitchRange == 100
DefaultPitchSteps == 1
DefaultFastThreshold == 2000

(***************************************************************************)
(* Option and SoundPackSettings                                            *)
(***************************************************************************)
None == <<>>
Some(x) == <<x>>
IsSome(o) == Len(o) = 1
unwrap_or(o, d) == IF IsSome(o) THEN o[1] ELSE d

\* SoundPackSettings::Basic(path); the optional fields exist only in the
\* Advanced variant and are kept empty here so that all records have the
\* same shape.
Basic(path) ==
  [form |-> "Basic", name |-> path, volume |-> None, pitch_start |-> None,
   pitch_range |-> None, pitch_steps |-> None, fast_threshold |-> None]

Advanced(path, a, b, c, d, e) ==
  [form |-> "Advanced", name |-> path, volume |-> a, pitch_start |-> b,
   pitch_range |-> c, pitch_steps |-> d, fast_threshold |-> e]

get_path(pack) == pack.name

(***************************************************************************)
(* get_name (lines 33-41).  A path is a sequence of characters; "U" stands *)
(* for a character whose UTF-8 encoding takes two bytes.  The code takes   *)
(* a character count and uses it as a byte offset of the slice.            *)
(***************************************************************************)
Chars == {"p", "/", "\\", "U"}
IsSeparator(c) == c = "/" \/ c = "\\"
Utf8Len(c) == IF c = "U" THEN 2 ELSE 1

RECURSIVE ByteLen(_)
ByteLen(str) == IF str = <<>> THEN 0 ELSE Utf8Len(Head(str)) + ByteLen(Tail(str))

\* The 1-based character index at which byte offset b starts, or 0 when b
\* is not a character boundary of str.
CharAtByte(str, b) ==
  LET starts == {i \in 1..(Len(str) + 1) : ByteLen(SubSeq(str, 1, i - 1)) = b}
  IN IF starts = {} THEN 0 ELSE CHOOSE i \in starts : TRUE

\* path.chars().rev().position(sep): distance of the last separator from
\* the end, or -1 when there is none.
RevPosition(path) ==
  LET seps == {i \in 1..Len(path) : IsSeparator(path[i])}
  IN IF seps = {} THEN -1
     ELSE Len(path) - (CHOOSE i \in seps : \A j \in seps : j <= i)

get_name(pack) ==
  LET path == get_path(pack)
      idx == RevPosition(path)
      from == Len(path) - idx - 1            \* used as a byte offset
      at == CharAtByte(path, from)
  IN IF idx = -1 THEN [ok |-> TRUE, val |-> path]
     ELSE IF at = 0 THEN [ok |-> FALSE, val |-> <<>>]   \* slice panics
     ELSE [ok |-> TRUE, val |-> SubSeq(path, at, Len(path))]

(***************************************************************************)
(* The binding match test of lines 144-145, 150-151, 159-160, 173-174.     *)
(***************************************************************************)
Matches(keybind, key_names) ==
  /\ Len(keybind) = Cardinality(key_names)
  /\ \A i \in 1..Len(keybind) : keybind[i] \in key_names

(***************************************************************************)
(* The loop body, one operator per step.  Every step maps the loop state   *)
(* s (a record of the mutable locals of main and of what the tick has      *)
(* printed and played so far) to the state after the step; a step that     *)
(* finds main already ended (return or panic) passes the state through.    *)
(***************************************************************************)
Line(text, name) == [text |-> text, name |-> name]

\* lines 143-148
Terminate(s, key_names) ==
  IF IsSome(settings.terminate) /\ Matches(settings.terminate[1], key_names)
  THEN [s EXCEPT !.status = "terminated",
                 !.console = Append(@, Line("Program terminated!", <<>>))]
  ELSE s

\* Faulty variant of Toggle: the !toggled gate of line 150 is dropped.
ToggleUngated(s, key_names) ==
  IF s.status # "running" THEN s
  ELSE IF IsSome(settings.toggle) /\ Matches(settings.toggle[1], key_names)
  THEN [s EXCEPT !.toggled = TRUE,
                 !.active = ~s.active,
                 !.console = Append(@, Line("Toggled keyboard sound effects.", <<>>))]
  ELSE s

\* lines 149-156
Toggle(s, key_names) ==
  IF s.status # "running" THEN s
  ELSE IF IsSome(settings.toggle) /\ ~s.toggled
          /\ Matches(settings.toggle[1], key_names)
  THEN [s EXCEPT !.toggled = TRUE,
                 !.active = ~s.active,
                 !.console = Append(@, Line("Toggled keyboard sound effects.", <<>>))]
  ELSE s

\* Faulty variant of Release: line 157 resets toggled only.
ReleaseToggledOnly(s, key_names) ==
  IF s.status # "running" THEN s
  ELSE IF Cardinality(key_names) = 0
  THEN [s EXCEPT !.toggled = FALSE]
  ELSE s

\* line 157
Release(s, key_names) ==
  IF s.status # "running" THEN s
  ELSE IF Cardinality(key_names) = 0
  THEN [s EXCEPT !.toggled = FALSE, !.switched_pack = FALSE]
  ELSE s

\* lines 169 and 178: println!(..., get_name(&settings.sound_packs[i]))
Report(s) ==
  LET i == s.current_sound_pack IN
  IF i >= Len(settings.sound_packs)
  THEN [s EXCEPT !.status = "pack index out of bounds"]
  ELSE LET n == get_name(settings.sound_packs[i + 1]) IN
       IF ~n.ok THEN [s EXCEPT !.status = "not a char boundary"]
       ELSE [s EXCEPT !.console = Append(@, Line("Changed sound pack to", n.val))]

\* lines 162-168: the new index of a previous-pack action
PreviousIndex(i, len) ==
  LET j == IF i = 0 THEN len ELSE i - 1
  IN j % len

\* Faulty variant of NextIndex: the modulo of line 177 is dropped.
NextIndexNoWrap(i, len) == i + 1

\* lines 176-177: the new index of a next-pack action
NextIndex(i, len) == (i + 1) % len

\* lines 158-171
PreviousPack(s, key_names) ==
  IF s.status # "running" THEN s
  ELSE IF IsSome(settings.previous_sound_pack) /\ ~s.switched_pack
          /\ Matches(settings.previous_sound_pack[1], key_names)
  THEN LET s1 == [s EXCEPT !.switched_pack = TRUE] IN
       IF Len(sound_packs) = 0
       THEN [s1 EXCEPT !.status = "remainder by zero",
                       !.current_sound_pack =
                          IF @ = 0 THEN Len(sound_packs) ELSE @ - 1]
       ELSE Report([s1 EXCEPT !.current_sound_pack =
                                 PreviousIndex(@, Len(sound_packs))])
  ELSE s

\* lines 172-180
NextPack(s, key_names) ==
  IF s.status # "running" THEN s
  ELSE IF IsSome(settings.next_sound_pack) /\ ~s.switched_pack
          /\ Matches(settings.next_sound_pack[1], key_names)
  THEN LET s1 == [s EXCEPT !.switched_pack = TRUE] IN
       IF Len(sound_packs) = 0
       THEN [s1 EXCEPT !.status = "remainder by zero",
                       !.current_sound_pack = @ + 1]
       ELSE Report([s1 EXCEPT !.current_sound_pack =
                                 NextIndex(@, Len(sound_packs))])
  ELSE s

\* Faulty variant of Effective: for a pack in advanced form a global
\* setting, when set, wins over the pack's own value.
EffectiveGlobalFirst(i) ==
  LET pack == settings.sound_packs[i + 1] IN
  IF pack.form = "Advanced"
  THEN [volume |-> unwrap_or(settings.volume, unwrap_or(pack.volume, DefaultVolume)),
        pitch_start |-> unwrap_or(settings.pitch_start,
                                  unwrap_or(pack.pitch_start, DefaultPitchStart)),
        pitch_range |-> unwrap_or(settings.pitch_range,
                                  unwrap_or(pack.pitch_range, DefaultPitchRange)),
        pitch_steps |-> unwrap_or(settings.pitch_steps,
                                  unwrap_or(pack.pitch_steps, DefaultPitchSteps)),
        fast_threshold |-> unwrap_or(settings.fast_threshold,
                                     unwrap_or(pack.fast_threshold, DefaultFastThreshold))]
  ELSE [volume |-> unwrap_or(settings.volume, DefaultVolume),
        pitch_start |-> unwrap_or(settings.pitch_start, DefaultPitchStart),
        pitch_range |-> unwrap_or(settings.pitch_range, DefaultPitchRange),
        pitch_steps |-> unwrap_or(settings.pitch_steps, DefaultPitchSteps),
        fast_threshold |-> unwrap_or(settings.fast_threshold, DefaultFastThreshold)]

\* lines 186-204: the effective parameters of pack number i (0-based)
Effective(i) ==
  LET pack == settings.sound_packs[i + 1] IN
  IF pack.form = "Advanced"
  THEN [volume |-> unwrap_or(pack.volume, unwrap_or(settings.volume, DefaultVolume)),
        pitch_start |-> unwrap_or(pack.pitch_start,
                                  unwrap_or(settings.pitch_start, DefaultPitchStart)),
        pitch_range |-> unwrap_or(pack.pitch_range,
                                  unwrap_or(settings.pitch_range, DefaultPitchRange)),
        pitch_steps |-> unwrap_or(pack.pitch_steps,
                                  unwrap_or(settings.pitch_steps, DefaultPitchSteps)),
        fast_threshold |-> unwrap_or(pack.fast_threshold,
                                     unwrap_or(settings.fast_threshold, DefaultFastThreshold))]
  ELSE [volume |-> unwrap_or(settings.volume, DefaultVolume),
        pitch_start |-> unwrap_or(settings.pitch_start, DefaultPitchStart),
        pitch_range |-> unwrap_or(settings.pitch_range, DefaultPitchRange),
        pitch_steps |-> unwrap_or(settings.pitch_steps, DefaultPitchSteps),
        fast_threshold |-> unwrap_or(settings.fast_threshold, DefaultFastThreshold)]

\* line 206: Duration::from_millis((fast_threshold * 1000.0) as u64), in time
\* units; the cast truncates to whole milliseconds and saturates at 0.
ThresholdDuration(fast_threshold) ==
  IF fast_threshold <= 0 THEN 0
  ELSE (fast_threshold \div UnitsPerMs) * UnitsPerMs

\* line 206
IsFast(since, fast_threshold) == since < ThresholdDuration(fast_threshold)

\* Faulty variant of NextPitch: the comparison of line 207 is `<=`.
NextPitchInclusive(p, fast, e) ==
  IF p <= e.pitch_start + e.pitch_range /\ fast THEN p + e.pitch_steps
  ELSE IF ~fast THEN e.pitch_start
  ELSE p

\* lines 207-212
NextPitch(p, fast, e) ==
  IF p < e.pitch_start + e.pitch_range /\ fast THEN p + e.pitch_steps
  ELSE IF ~fast THEN e.pitch_start
  ELSE p

\* line 185 and the cast of line 220: random::<f32>() is u / MaxClips for
\* a u in 0..MaxClips-1; the product is truncated to an index.
Selection(u, len) == (u * len) \div MaxClips

\* Faulty variant of SinkReset: the sink.stop() of line 216 is dropped, so
\* only empty(), which changes nothing, is left before the append.
SinkResetWithoutStop(snk, speed, volume) ==
  [queue |-> snk.queue, speed |-> speed, volume |-> volume]

\* lines 216-219: stop() empties the queue; empty() only asks whether the
\* queue is empty and changes nothing.
SinkReset(snk, speed, volume) ==
  [queue |-> <<>>, speed |-> speed, volume |-> volume]

\* line 220
SinkAppend(snk, clip) == [snk EXCEPT !.queue = Append(@, clip)]

\* lines 184-221, for a tick that found keys.len() > previous_key_amt
NewPress(s, u) ==
  LET i == s.current_sound_pack IN
  IF i >= Len(sound_packs) THEN [s EXCEPT !.status = "pack index out of bounds"]
  ELSE
    LET len == sound_packs[i + 1]
        selection == Selection(u, len)
        e == Effective(i)
        fast == IsFast(s.last_press_elapsed, e.fast_threshold)
        p == NextPitch(s.pitch, fast, e)
        s1 == [s EXCEPT !.pitch = p,
                        !.last_press_elapsed = 0,
                        !.sink = SinkReset(@, p, e.volume)]
    IN IF selection >= len THEN [s1 EXCEPT !.status = "clip index out of bounds"]
       ELSE [s1 EXCEPT !.sink = SinkAppend(@, [pack |-> i, clip |-> selection]),
                       !.played = TRUE]

\* Faulty variant of Playback: the `if !active { continue; }` of line 182 is dropped.
PlaybackIgnoringActive(s, key_names, u) ==
  IF s.status # "running" THEN s
  ELSE LET s1 == IF Cardinality(key_names) > s.previous_key_amt
                 THEN NewPress(s, u) ELSE s
       IN IF s1.status # "running" THEN s1
          ELSE [s1 EXCEPT !.previous_key_amt = Cardinality(key_names)]

\* lines 182-223
Playback(s, key_names, u) ==
  IF s.status # "running" THEN s
  ELSE IF ~s.active THEN s                                   \* line 182
  ELSE LET s1 == IF Cardinality(key_names) > s.previous_key_amt
                 THEN NewPress(s, u) ELSE s
       IN IF s1.status # "running" THEN s1
          ELSE [s1 EXCEPT !.previous_key_amt = Cardinality(key_names)]  \* line 223

\* Faulty variant of LoopBody: the playback block runs before the two
\* pack-switch steps.
LoopBodyPlayFirst(s, key_names, u) ==
  NextPack(PreviousPack(Playback(Release(Toggle(Terminate(s, key_names),
    key_names), key_names), key_names, u), key_names), key_names)

\* Faulty variant of LoopBody: the toggle check runs before the terminate check.
LoopBodyToggleFirst(s, key_names, u) ==
  Playback(NextPack(PreviousPack(Release(Terminate(Toggle(s, key_names),
    key_names), key_names), key_names), key_names), key_names, u)

\* lines 140-224: one iteration of the loop
LoopBody(s, key_names, u) ==
  Playback(NextPack(PreviousPack(Release(Toggle(Terminate(s, key_names),
    key_names), key_names), key_names), key_names), key_names, u)

Capped(n) == IF n > 2 THEN 2 ELSE n

(***************************************************************************)
(* Actions                                                                 *)
(***************************************************************************)
\* One iteration of the loop: the device reports the held keys, dt time
\* units have passed since the previous iteration, u is the random draw.
Tick ==
  /\ status = "running"
  /\ \E held \in SUBSET Keys, dt \in 0..MaxDelta, u \in 0..(MaxClips - 1) :
       /\ last_press_elapsed + dt <= MaxElapsed
       /\ LET s0 == [active |-> active, toggled |-> toggled,
                     switched_pack |-> switched_pack,
                     current_sound_pack |-> current_sound_pack,
                     previous_key_amt |-> previous_key_amt,
                     pitch |-> pitch,
                     last_press_elapsed |-> last_press_elapsed + dt,
                     sink |-> sink, status |-> status,
                     console |-> <<>>, played |-> FALSE]
          IN \E s \in {LoopBody(s0, held, u)} :
             /\ active' = s.active
             /\ toggled' = s.toggled
             /\ switched_pack' = s.switched_pack
             /\ current_sound_pack' = s.current_sound_pack
             /\ previous_key_amt' = s.previous_key_amt
             /\ pitch' = s.pitch
             /\ last_press_elapsed' = s.last_press_elapsed
             /\ sink' = s.sink
             /\ status' = s.status
             /\ console' = s.console
             /\ played' = s.played
             /\ keys' = held
             /\ elapsed' = last_press_elapsed + dt
             /\ toggles' = IF held = {} THEN 0
                           ELSE Capped(toggles + IF s.active # active THEN 1 ELSE 0)
             /\ switches' = IF held = {} THEN 0
                            ELSE Capped(switches +
                                   IF s.current_sound_pack # current_sound_pack
                                   THEN 1 ELSE 0)
             /\ step' = "tick"
  /\ UNCHANGED <<settings, sound_packs>>

\* The audio thread finishes the clip the sink is playing.
ClipEnds ==
  /\ status = "running"
  /\ sink.queue # <<>>
  /\ sink' = [sink EXCEPT !.queue = Tail(@)]
  /\ step' = "clip_end"
  /\ UNCHANGED <<settings, sound_packs, active, previous_key_amt,
                 last_press_elapsed, pitch, toggled, switched_pack,
                 current_sound_pack, status, keys, console, played,
                 elapsed, toggles, switches>>

Next == Tick \/ ClipEnds

(***************************************************************************)
(* Configurations and initial states                                       *)
(***************************************************************************)
\* The state after lines 57-137 for a given configuration.
InitWith(cfgs, clipCounts) ==
  /\ settings \in cfgs
  /\ sound_packs \in clipCounts
  /\ Len(sound_packs) = Len(settings.sound_packs)
  /\ active = TRUE
  /\ previous_key_amt = 0
  /\ last_press_elapsed = 0
  /\ pitch = unwrap_or(settings.pitch_start, DefaultPitchStart)
  /\ toggled = FALSE
  /\ switched_pack = FALSE
  /\ current_sound_pack = 0
  /\ sink = [queue |-> <<>>, speed |-> 200, volume |-> 10]
  /\ status = "running"
  /\ keys = {}
  /\ console = <<>>
  /\ played = FALSE
  /\ elapsed = 0
  /\ toggles = 0
  /\ switches = 0
  /\ step = "init"

\* Pack i lies at "p/p", "p/pp", ...: the packs have different names.
PackPath(i) == <<"p", "/">> \o [k \in 1..i |-> "p"]

\* n packs in basic form
BasicPacks(n) == [i \in 1..n |-> Basic(PackPath(i))]

\* Pack i holds i clips, up to MaxClips.
ClipCounts(n) == [i \in 1..n |-> IF i > MaxClips THEN MaxClips ELSE i]

MainSettings ==
  [sound_packs : {BasicPacks(n) : n \in 1..MaxPacks},
   terminate : {None, Some(<<"A", "B">>)},
   toggle : {Some(<<"A">>), Some(<<"A", "B">>)},
   previous_sound_pack : {None, Some(<<"A">>), Some(<<"B">>)},
   next_sound_pack : {None, Some(<<"B">>), Some(<<"A", "B">>)},
   volume : {Some(5)},
   pitch_start : {Some(5)},
   pitch_range : {Some(2)},
   pitch_steps : {Some(1)},
   fast_threshold : {Some(2)}]

Init == InitWith(MainSettings, {ClipCounts(n) : n \in 1..MaxPacks})

Spec == Init /\ [][Next]_vars

\* Every key list of at most MaxBindLen names, repeated names included.
Bindings == UNION {[1..k -> Keys] : k \in 0..MaxBindLen}
BindingOptions == {None} \cup {Some(b) : b \in Bindings}

\* Configurations that write the terminate and toggle bindings in every way.
MatchSettings ==
  [sound_packs : {BasicPacks(1)},
   terminate : BindingOptions,
   toggle : BindingOptions,
   previous_sound_pack : {None},
   next_sound_pack : {None, Some(<<"B", "B">>)},
   volume : {Some(5)},
   pitch_start : {Some(5)},
   pitch_range : {Some(1)},
   pitch_steps : {Some(1)},
   fast_threshold : {Some(2)}]

InitMatch == InitWith(MatchSettings, {ClipCounts(1)})

SpecMatch == InitMatch /\ [][Next]_vars

\* Configurations that vary the pitch parameters; the second pack, when
\* there is one, is in advanced form and overrides some of them.
PitchPacks ==
  {<<Basic(PackPath(1))>>,
   <<Basic(PackPath(1)),
     Advanced(PackPath(2), None, Some(6), Some(1), None, Some(3))>>}

PitchSettings ==
  [sound_packs : PitchPacks,
   terminate : {None},
   toggle : {None},
   previous_sound_pack : {None},
   next_sound_pack : {Some(<<"B">>)},
   volume : {Some(5)},
   pitch_start : {Some(5)},
   pitch_range : {Some(2)},
   pitch_steps : {Some(1), Some(2)},
   fast_threshold : {Some(0), Some(1), Some(2), Some(3)}]

InitPitch == InitWith(PitchSettings, {ClipCounts(n) : n \in 1..2})

SpecPitch == InitPitch /\ [][Next]_vars

\* Configurations that pass startup with any number of packs, none included,
\* each pack directory holding any number of clips, none included.
PackSettings ==
  [sound_packs : {BasicPacks(n) : n \in 0..MaxPacks},
   terminate : {None},
   toggle : {None},
   previous_sound_pack : {Some(<<"A">>)},
   next_sound_pack : {Some(<<"B">>)},
   volume : {Some(5)},
   pitch_start : {Some(5)},
   pitch_range : {Some(1)},
   pitch_steps : {Some(1)},
   fast_threshold : {Some(2)}]

InitPacks ==
  InitWith(PackSettings, UNION {[1..n -> 0..MaxClips] : n \in 0..MaxPacks})

SpecPacks == InitPacks /\ [][Next]_vars

\* Configurations whose packs take the global pitch parameters, and
\* configurations in which one pack overrides them; pitch_range and
\* pitch_steps may be zero.
OverridePacks ==
  {<<Basic(PackPath(1))>>,
   <<Basic(PackPath(1)), Advanced(PackPath(2), Some(7), None, None, None, None)>>,
   <<Basic(PackPath(1)), Advanced(PackPath(2), None, Some(7), None, None, None)>>,
   <<Advanced(PackPath(1), None, Some(3), Some(1), Some(1), None),
     Basic(PackPath(2))>>}

OverrideSettings ==
  [sound_packs : OverridePacks,
   terminate : {None},
   toggle : {None},
   previous_sound_pack : {None},
   next_sound_pack : {Some(<<"B">>)},
   volume : {Some(5)},
   pitch_start : {Some(5)},
   pitch_range : {Some(0), Some(1), Some(2)},
   pitch_steps : {Some(0), Some(2)},
   fast_threshold : {Some(2)}]

InitOverride == InitWith(OverrideSettings, {ClipCounts(n) : n \in 1..2})

SpecOverride == InitOverride /\ [][Next]_vars

\* Configurations in which a binding may be an empty key list.
EmptySettings ==
  [sound_packs : {BasicPacks(2)},
   terminate : {None},
   toggle : {None, Some(<<>>), Some(<<"A">>)},
   previous_sound_pack : {None, Some(<<>>), Some(<<"A">>)},
   next_sound_pack : {None, Some(<<>>), Some(<<"B">>)},
   volume : {Some(5)},
   pitch_start : {Some(5)},
   pitch_range : {Some(1)},
   pitch_steps : {Some(1)},
   fast_threshold : {Some(2)}]

InitEmpty == InitWith(EmptySettings, {ClipCounts(2)})

SpecEmpty == InitEmpty /\ [][Next]_vars

\* Configurations of one pack, in basic form or in advanced form with some,
\* all or none of its own parameters set, under global parameters of which
\* some, all or none are set.
ResolvePacks ==
  {<<Basic(PackPath(1))>>,
   <<Advanced(PackPath(1), None, None, None, None, None)>>,
   <<Advanced(PackPath(1), Some(7), None, Some(1), None, Some(3))>>,
   <<Advanced(PackPath(1), None, Some(6), None, Some(2), None)>>,
   <<Advanced(PackPath(1), Some(7), Some(6), Some(1), Some(2), Some(3))>>}

ResolveGlobals ==
  {<<None, None, None, None, None>>,
   <<Some(5), Some(5), Some(2), Some(1), Some(2)>>,
   <<None, Some(5), None, Some(1), None>>,
   <<Some(5), None, Some(2), None, Some(2)>>}

ResolveSettings ==
  {[sound_packs |-> packs,
    terminate |-> None,
    toggle |-> None,
    previous_sound_pack |-> None,
    next_sound_pack |-> None,
    volume |-> g[1],
    pitch_start |-> g[2],
    pitch_range |-> g[3],
    pitch_steps |-> g[4],
    fast_threshold |-> g[5]] : packs \in ResolvePacks, g \in ResolveGlobals}

InitResolve == InitWith(ResolveSettings, {ClipCounts(1)})

SpecResolve == InitResolve /\ [][Next]_vars

\* Configurations of one pack whose path is any string of at most
\* MaxPathLen characters, in basic and in advanced form.
Paths == UNION {[1..k -> Chars] : k \in 1..MaxPathLen}

NameSettings ==
  [sound_packs : {<<Basic(path)>> : path \in Paths}
                 \cup {<<Advanced(path, None, None, None, None, None)>> : path \in Paths},
   terminate : {None},
   toggle : {None},
   previous_sound_pack : {None},
   next_sound_pack : {Some(<<"A">>)},
   volume : {Some(5)},
   pitch_start : {Some(5)},
   pitch_range : {Some(1)},
   pitch_steps : {Some(1)},
   fast_threshold : {Some(2)}]

InitName == InitWith(NameSettings, {ClipCounts(1)})

SpecName == InitName /\ [][Next]_vars

(***************************************************************************)
(* Properties                                                              *)
(***************************************************************************)
KeySet(keybind) == {keybind[i] : i \in 1..Len(keybind)}

PackCount == Len(sound_packs)

Reported(cons) == \E i \in 1..Len(cons) : cons[i].text = "Changed sound pack to"

ToggleLine(cons) ==
  \E i \in 1..Len(cons) : cons[i].text = "Toggled keyboard sound effects."

ConfiguredBindings ==
  {o \in {settings.terminate, settings.toggle, settings.previous_sound_pack,
          settings.next_sound_pack} : IsSome(o)}

\* C1: for every configured binding B, as the list written in the
\* configuration, and every held set H, the match test is true if and only
\* if the set of names of B equals H; for the terminate binding, the tick
\* ends the program exactly when the two sets are equal.
C1_MatchIsSetEquality ==
  step = "tick" =>
    /\ \A o \in ConfiguredBindings : Matches(o[1], keys) <=> (KeySet(o[1]) = keys)
    /\ IsSome(settings.terminate) =>
         ((status = "terminated") <=> (KeySet(settings.terminate[1]) = keys))

\* C2 as stated: for a non-empty toggle binding, in every run of consecutive
\* ticks whose held set equals the binding, active flips on the first tick of
\* the run and on no other tick of it.
C2_FlipsOnFirstTickOfEveryRun ==
  [][(/\ step' = "tick"
      /\ status' = "running"
      /\ IsSome(settings.toggle)
      /\ settings.toggle[1] # <<>>
      /\ keys' = KeySet(settings.toggle[1]))
     => ((active' # active) <=> (keys # keys'))]_vars

\* C2 as amended: for a non-empty toggle binding, in ticks that run to their
\* end, active flips only in a tick whose held set matches the binding; in a
\* run of consecutive matching ticks it flips at most once and only on the
\* first tick; it does flip on the first tick when the run starts the program
\* or directly follows a tick with no key held; between two ticks with no key
\* held it flips at most once (so a run reached without releasing every key
\* after a flip, such as {T}, {T,X}, {T}, flips nothing).
C2_ToggleOncePerRelease ==
  [][(/\ step' = "tick"
      /\ status' = "running"
      /\ IsSome(settings.toggle)
      /\ settings.toggle[1] # <<>>)
     => LET m == Matches(settings.toggle[1], keys') IN
        /\ (active' # active) => m
        /\ (m /\ keys = {}) => (active' # active)
        /\ (m /\ Matches(settings.toggle[1], keys)) => (active' = active)
        /\ toggles' <= 1]_vars

\* C2 witness: the binding is still held in a tick after the one that
\* flipped active, and this tick flipped nothing.
C2_Witness ==
  /\ step = "tick" /\ status = "running"
  /\ IsSome(settings.toggle) /\ settings.toggle[1] # <<>>
  /\ Matches(settings.toggle[1], keys)
  /\ toggled /\ toggles = 1 /\ ~active
  /\ ~ToggleLine(console)

\* C3: for non-empty previous-pack and next-pack bindings, between two ticks
\* with no key held the pack index changes at most once, every change is a
\* move of exactly one step, and in the tick after a tick with no key held a
\* matching binding moves the index one step in its direction (previous:
\* to i-1, wrapping from 0 to N-1; next: to i+1, wrapping from N-1 to 0).
C3_OneSwitchPerRelease ==
  [][(/\ step' = "tick"
      /\ status' = "running"
      /\ PackCount >= 1
      /\ \A o \in {settings.previous_sound_pack, settings.next_sound_pack} :
           IsSome(o) => o[1] # <<>>)
     => LET n == PackCount
            i == current_sound_pack
            prev == IsSome(settings.previous_sound_pack)
                    /\ Matches(settings.previous_sound_pack[1], keys')
            next == IsSome(settings.next_sound_pack)
                    /\ Matches(settings.next_sound_pack[1], keys')
        IN /\ switches' <= 1
           /\ (current_sound_pack' # i)
                => current_sound_pack' \in {(i + 1) % n, (i + n - 1) % n}
           /\ (keys = {} /\ prev) => current_sound_pack' = (i + n - 1) % n
           /\ (keys = {} /\ next /\ ~prev) => current_sound_pack' = (i + 1) % n]_vars

RECURSIVE NextTimes(_, _, _)
NextTimes(i, len, k) == IF k = 0 THEN i ELSE NextTimes(NextIndex(i, len), len, k - 1)

\* C4: for N >= 1 packs and every index i < N: a previous-pack action moves
\* the index from i to i-1 and from 0 to N-1, a next-pack action from i to
\* i+1 and from N-1 to 0; N next-pack actions return to i, and previous after
\* next and next after previous both return to i.
C4_Wraparound ==
  [][(/\ step' = "tick"
      /\ status' = "running"
      /\ PackCount >= 1
      /\ Reported(console'))
     => LET n == PackCount
            i == current_sound_pack
            prev == IsSome(settings.previous_sound_pack)
                    /\ Matches(settings.previous_sound_pack[1], keys')
            j == current_sound_pack'
        IN /\ prev => /\ j = (IF i = 0 THEN n - 1 ELSE i - 1)
                       /\ NextIndex(j, n) = i
           /\ ~prev => /\ j = (IF i = n - 1 THEN 0 ELSE i + 1)
                        /\ PreviousIndex(j, n) = i
           /\ NextTimes(i, n, n) = i]_vars

\* C5: with at least one sound pack, current_sound_pack is below the number
\* of packs in every reachable state, and no tick indexes the pack list out
\* of range (name report, parameter lookup, clip selection).
C5_PackIndexInRange ==
  PackCount >= 1 =>
    /\ current_sound_pack < PackCount
    /\ status # "pack index out of bounds"

\* C5 witness: a tick switched to the last of several packs and played a
\* clip of it.
C5_Witness ==
  /\ step = "tick" /\ status = "running"
  /\ PackCount = MaxPacks
  /\ Reported(console) /\ played
  /\ current_sound_pack = PackCount - 1
  /\ sink.queue # <<>> /\ sink.queue[1].pack = current_sound_pack

\* C6: a tick whose held set matches the configured terminate binding ends
\* the program before any other step: active, the two consumed flags, the
\* pack index, the pitch and the sink are unchanged, no clip is started,
\* only the termination line is printed; and no step follows a tick that
\* ended the program.
C6_TerminateFirst ==
  [][/\ status = "running"
     /\ (/\ step' = "tick"
         /\ IsSome(settings.terminate)
         /\ Matches(settings.terminate[1], keys'))
        => /\ status' = "terminated"
           /\ active' = active
           /\ toggled' = toggled
           /\ switched_pack' = switched_pack
           /\ current_sound_pack' = current_sound_pack
           /\ previous_key_amt' = previous_key_amt
           /\ pitch' = pitch
           /\ sink' = sink
           /\ ~played'
           /\ console' = <<Line("Program terminated!", <<>>)>>]_vars

\* C6 witness: the program was terminated while inactive, by keys that are
\* also the next-pack binding.
C6_Witness ==
  /\ status = "terminated"
  /\ ~active
  /\ settings.next_sound_pack = settings.terminate

\* C7: in a tick that runs to its end with active false after the toggle
\* step, no clip is started and pitch, last_press and the sink are unchanged,
\* while a matching toggle binding still flips active and a matching
\* previous/next-pack binding still switches and reports the pack; a tick
\* that matches the terminate binding ends the program also when inactive.
C7_InactivePlaysNothing ==
  [][step' = "tick" =>
       /\ (status' = "running" /\ ~active') =>
            LET gate == ~switched_pack \/ keys' = {}
                prev == IsSome(settings.previous_sound_pack)
                        /\ Matches(settings.previous_sound_pack[1], keys')
                next == IsSome(settings.next_sound_pack)
                        /\ Matches(settings.next_sound_pack[1], keys')
                tog == IsSome(settings.toggle) /\ ~toggled
                       /\ Matches(settings.toggle[1], keys')
            IN /\ ~played'
               /\ pitch' = pitch
               /\ sink' = sink
               /\ last_press_elapsed' = elapsed'
               /\ tog <=> (active' # active)
               /\ tog <=> ToggleLine(console')
               /\ (gate /\ (prev \/ next)) <=> Reported(console')
               /\ (gate /\ (prev \/ next)) => switched_pack'
               /\ ~(gate /\ (prev \/ next)) => current_sound_pack' = current_sound_pack
       /\ (~active /\ IsSome(settings.terminate)
           /\ Matches(settings.terminate[1], keys')) => status' = "terminated"]_vars

\* C7 witness: the tick that switched the sound effects off saw a new key
\* press, switched the pack and played nothing.
C7_Witness ==
  /\ step = "tick" /\ status = "running"
  /\ ~active
  /\ ToggleLine(console) /\ Reported(console)
  /\ Cardinality(keys) > previous_key_amt
  /\ ~played

\* C8: in every tick that runs to its end, a clip is started if and only if
\* active is true after the toggle step and more keys are held than in the
\* immediately preceding tick (none before the first tick).
C8_ClipIffCountIncreased ==
  [][(step' = "tick" /\ status' = "running")
     => (played' <=> (active' /\ Cardinality(keys') > Cardinality(keys)))]_vars

\* C9: on every new press, with the effective parameters of the active pack
\* and fast meaning that the time since last_press is below fast_threshold:
\* a fast press below the ceiling pitch_start + pitch_range adds pitch_steps
\* to the pitch, a fast press at or above the ceiling leaves it, a press that
\* is not fast sets it to pitch_start; last_press becomes the time of the
\* press in all three cases.
C9_PitchUpdate ==
  [][(step' = "tick" /\ played')
     => LET e == Effective(current_sound_pack')
            fast == elapsed' < e.fast_threshold
            below == pitch < e.pitch_start + e.pitch_range
        IN /\ (fast /\ below) => pitch' = pitch + e.pitch_steps
           /\ (fast /\ ~below) => pitch' = pitch
           /\ ~fast => pitch' = e.pitch_start
           /\ last_press_elapsed' = 0]_vars

\* The text strictly after the last separator of a path, or the whole path.
AfterLastSeparator(path) ==
  LET seps == {i \in 1..Len(path) : IsSeparator(path[i])}
  IN IF seps = {} THEN path
     ELSE SubSeq(path, (CHOOSE i \in seps : \A j \in seps : j <= i) + 1, Len(path))

\* C10: the name printed on a pack switch is the text strictly after the
\* last '/' or '\' of the path of the new pack (the whole path when it has
\* neither), for the basic and for the advanced form.
C10_NameAfterLastSeparator ==
  \A i \in 1..Len(console) :
    console[i].text = "Changed sound pack to"
      => console[i].name =
           AfterLastSeparator(get_path(settings.sound_packs[current_sound_pack + 1]))

\* C11: the sink never holds more than one clip; after a tick that detected
\* a new press it holds exactly the clip selected in that tick, a clip of
\* the current pack, with the speed and the volume computed in that tick.
C11_SinkHoldsOneClip ==
  /\ Len(sink.queue) <= 1
  /\ (step = "tick" /\ played) =>
       /\ Len(sink.queue) = 1
       /\ sink.queue[1].pack = current_sound_pack
       /\ sink.queue[1].clip < sound_packs[current_sound_pack + 1]
       /\ sink.speed = pitch
       /\ sink.volume = Effective(current_sound_pack).volume

\* C11 witness: a press in a run of fast presses (the pitch has climbed two
\* steps) replaced what the sink held by the second clip of the second pack.
C11_Witness ==
  /\ step = "tick" /\ played
  /\ sink.queue = <<[pack |-> 1, clip |-> 1]>>
  /\ pitch = unwrap_or(settings.pitch_start, DefaultPitchStart)
             + 2 * unwrap_or(settings.pitch_steps, DefaultPitchSteps)
  /\ sink.speed = pitch

\* C12: for every configuration that passes startup, a sound_packs list
\* without entries and a pack directory without clips included, no tick
\* fails: no remainder by zero, no pack index and no clip index out of range.
C12_NoTickFails ==
  status \notin {"remainder by zero", "pack index out of bounds",
                 "clip index out of bounds"}

\* C13: at the end of every tick that does not terminate the program,
\* whether active is true or false, the recorded count of held keys is the
\* number of keys held in that tick.
C13_CountRecordedEveryTick ==
  (step = "tick" /\ status = "running") =>
    previous_key_amt = Cardinality(keys)

\* No pack sets a pitch parameter of its own.
NoPitchOverride ==
  \A i \in 1..PackCount :
    LET pack == settings.sound_packs[i] IN
    pack.form = "Advanced" =>
      /\ pack.pitch_start = None
      /\ pack.pitch_range = None
      /\ pack.pitch_steps = None

\* C14 as stated: every clip is started at a speed p with
\* pitch_start <= p < pitch_start + pitch_range + pitch_steps, the effective
\* parameters of the clip's pack, in every configuration, after any presses
\* and pack switches, the first press included.
C14_SpeedWithinPackRange ==
  (step = "tick" /\ played) =>
    LET e == Effective(sink.queue[1].pack)
    IN /\ e.pitch_start <= sink.speed
       /\ sink.speed < e.pitch_start + e.pitch_range + e.pitch_steps

\* C14 amended: when no pack overrides pitch_start, pitch_range or
\* pitch_steps and pitch_range + pitch_steps is positive, every clip is
\* started at a speed p with pitch_start <= p < pitch_start + pitch_range +
\* pitch_steps, the first press included.
C14_SpeedWithinGlobalRange ==
  (/\ step = "tick" /\ played
   /\ NoPitchOverride
   /\ Effective(0).pitch_range + Effective(0).pitch_steps > 0) =>
    LET e == Effective(sink.queue[1].pack)
    IN /\ e.pitch_start <= sink.speed
       /\ sink.speed < e.pitch_start + e.pitch_range + e.pitch_steps

\* C14 witness: without overrides, a fast press has carried the speed past
\* the ceiling pitch_start + pitch_range, by less than one step.
C14_Witness ==
  /\ step = "tick" /\ played
  /\ NoPitchOverride
  /\ LET e == Effective(sink.queue[1].pack)
     IN /\ e.pitch_steps > 0
        /\ sink.speed > e.pitch_start + e.pitch_range
        /\ sink.speed < e.pitch_start + e.pitch_range + e.pitch_steps

\* The previous or the next binding is configured as an empty key list.
EmptySwitchBinding ==
  \/ settings.previous_sound_pack = Some(<<>>)
  \/ settings.next_sound_pack = Some(<<>>)

\* C15 as stated: in every configuration, a binding configured as an empty
\* key list included, both consumed flags are false at the end of every
\* tick in which no key is held.
C15_FlagsClearWhenNoKeyHeld ==
  (step = "tick" /\ status = "running" /\ keys = {}) =>
    (~toggled /\ ~switched_pack)

\* C15 amended: at the end of every tick in which no key is held, toggled
\* is false, and switched_pack is false unless the previous or the next
\* binding is an empty key list; a flag that is true stays true in every
\* tick in which at least one key is held.
C15_FlagsFollowRelease ==
  [][(step' = "tick" /\ status' = "running")
     => /\ keys' = {} => /\ ~toggled'
                         /\ switched_pack' => EmptySwitchBinding
        /\ keys' # {} => /\ toggled => toggled'
                         /\ switched_pack => switched_pack']_vars

\* C15 witness: a tick with no key held in which an empty toggle binding
\* and an empty pack-switch binding both fired: toggled was reset by the
\* release step that follows the toggle, switched_pack was set after it.
C15_Witness ==
  /\ step = "tick" /\ status = "running" /\ keys = {}
  /\ settings.toggle = Some(<<>>)
  /\ ToggleLine(console) /\ ~toggled
  /\ Reported(console) /\ switched_pack

\* One parameter: the pack's own value if the pack is in advanced form and
\* sets it, else the global setting if set, else the default.
Resolved(pack, own, global, default) ==
  IF pack.form = "Advanced" /\ IsSome(own) THEN own[1]
  ELSE IF IsSome(global) THEN global[1]
  ELSE default

\* The five parameters of pack number i (0-based), each resolved on its own.
Resolve(i) ==
  LET pack == settings.sound_packs[i + 1] IN
  [volume |-> Resolved(pack, pack.volume, settings.volume, DefaultVolume),
   pitch_start |-> Resolved(pack, pack.pitch_start, settings.pitch_start,
                            DefaultPitchStart),
   pitch_range |-> Resolved(pack, pack.pitch_range, settings.pitch_range,
                            DefaultPitchRange),
   pitch_steps |-> Resolved(pack, pack.pitch_steps, settings.pitch_steps,
                            DefaultPitchSteps),
   fast_threshold |-> Resolved(pack, pack.fast_threshold, settings.fast_threshold,
                               DefaultFastThreshold)]

\* C16: on every new press each of volume, pitch_start, pitch_range,
\* pitch_steps and fast_threshold is, independently of the others, the
\* active pack's own value if the pack is in advanced form and sets it, else
\* the global setting if set, else the default (1.0, 0.5, 0.5, 0.005, 1.0);
\* a pack in basic form takes the global setting or the default.  The clip
\* is started with that volume, and the press is classified and the pitch
\* updated with those four other parameters.
C16_ParametersResolved ==
  [][(step' = "tick" /\ played')
     => LET r == Resolve(current_sound_pack')
        IN /\ sink'.volume = r.volume
           /\ pitch' = NextPitch(pitch, IsFast(elapsed', r.fast_threshold), r)
           /\ sink'.speed = pitch']_vars

\* C16 witness: a press on an advanced pack that sets pitch_start and
\* pitch_steps only, under globals that set only volume, pitch_range and
\* fast_threshold: the clip has the global volume and the pitch has taken
\* one step of the pack's size from the pack's pitch_start.
C16_Witness ==
  /\ step = "tick" /\ played
  /\ settings.sound_packs[1].form = "Advanced"
  /\ settings.sound_packs[1].volume = None
  /\ settings.sound_packs[1].pitch_start = Some(6)
  /\ settings.sound_packs[1].pitch_steps = Some(2)
  /\ settings.volume = Some(5)
  /\ settings.pitch_start = None
  /\ sink.volume = 5
  /\ sink.speed = 8

\* C17: in a tick in which a pack switch fires and a new press is played
\* (active true, more keys held than recorded), the switch takes effect
\* first: the clip is one of the newly selected pack, and the volume and the
\* pitch are computed from that pack's effective parameters.
C17_SwitchBeforePlayback ==
  [][(step' = "tick" /\ played' /\ Reported(console'))
     => LET new == current_sound_pack'
            e == Effective(new)
        IN /\ Len(sink'.queue) = 1
           /\ sink'.queue[1].pack = new
           /\ sink'.queue[1].clip < sound_packs[new + 1]
           /\ sink'.volume = e.volume
           /\ pitch' = NextPitch(pitch, IsFast(elapsed', e.fast_threshold), e)
           /\ sink'.speed = pitch']_vars

\* C17 witness: the tick that switched from the first pack to the second
\* played a clip of the second pack, at the second pack's own pitch_start.
C17_Witness ==
  /\ step = "tick" /\ played /\ Reported(console)
  /\ current_sound_pack = 1
  /\ sink.queue = <<[pack |-> 1, clip |-> 1]>>
  /\ settings.sound_packs[2].pitch_start = Some(6)
  /\ sink.speed = 6

\* C18: with time in units finer than a millisecond, a press is classified
\* fast if and only if the time since last_press is strictly below the
\* effective fast_threshold, for every non-negative threshold, one that is
\* not a whole number of milliseconds included.
C18_FastIffBelowThreshold ==
  [][(step' = "tick" /\ played')
     => LET e == Effective(current_sound_pack')
        IN IsFast(elapsed', e.fast_threshold) <=> (elapsed' < e.fast_threshold)]_vars

====
